---- MODULE Spec2Model ----
(***************************************************************************)
(* Model of webob/etag.py: ETagMatcher.parse / __contains__ / __str__,     *)
(* etag_property (fget, fset, fdel), IfRange.parse / match and             *)
(* IfRangeDate.match.                                                      *)
(*                                                                         *)
(* A Python str is a sequence of one-character strings.  Every other       *)
(* Python value is a record with a "kind" field.                           *)
(***************************************************************************)
EXTENDS Integers, Sequences, FiniteSets, TLC

\* ---------------------------------------------------------------- bounds
MaxTokens == 5
MaxLiveTokens == 3
MaxElems == 2
MaxTags == 2
MaxRangeTokens == 2
MaxHeaderTokens == 2

\* ------------------------------------------------------------ characters
Q == "\""
SP == " "
COMMA == ","
STAR == <<"*">>

\* ----------------------------------------------------- Python str methods
Range(s) == {s[i] : i \in 1..Len(s)}

Drop(s, n) == SubSeq(s, n + 1, Len(s))

\* str.lower(), on the characters of the model's alphabet
LowerChar(c) ==
  CASE c = "W" -> "w"
    [] c = "G" -> "g"
    [] c = "M" -> "m"
    [] c = "T" -> "t"
    [] OTHER -> c

Lower(s) == [i \in 1..Len(s) |-> LowerChar(s[i])]

StartsWith(s, p) == Len(s) >= Len(p) /\ SubSeq(s, 1, Len(p)) = p

EndsWith(s, p) == Len(s) >= Len(p) /\ SubSeq(s, Len(s) - Len(p) + 1, Len(s)) = p

\* index of the first occurrence of character c in s, 0 when there is none
Find(s, c) ==
  IF c \in Range(s) THEN CHOOSE i \in 1..Len(s) : s[i] = c /\ \A j \in 1..(i - 1) : s[j] # c
  ELSE 0

RECURSIVE LStrip(_, _)
LStrip(s, chars) ==
  IF s # <<>> /\ Head(s) \in chars THEN LStrip(Tail(s), chars) ELSE s

RECURSIVE RStrip(_, _)
RStrip(s, chars) ==
  IF s # <<>> /\ s[Len(s)] \in chars THEN RStrip(SubSeq(s, 1, Len(s) - 1), chars) ELSE s

\* str.strip(chars); str.strip() is Strip(s, Whitespace)
Strip(s, chars) == RStrip(LStrip(s, chars), chars)

Whitespace == {SP}

\* ------------------------------------------------------- Python values
NoneV == [kind |-> "None"]
AnyETag == [kind |-> "AnyETag"]
NoETag == [kind |-> "NoETag"]
StrV(s) == [kind |-> "str", s |-> s]
BoolV(b) == [kind |-> "bool", b |-> b]
Matcher(etags, weak_etags) ==
  [kind |-> "ETagMatcher", etags |-> etags, weak_etags |-> weak_etags]

\* _AnyETag.__contains__, _NoETag.__contains__, ETagMatcher.__contains__
ContainsStrongOnly(m, other) ==
  CASE m.kind = "AnyETag" -> TRUE
    [] m.kind = "NoETag" -> FALSE
    [] m.kind = "ETagMatcher" -> other.kind = "str" /\ other.s \in Range(m.etags)

Contains(m, other) ==
  CASE m.kind = "AnyETag" -> TRUE
    [] m.kind = "NoETag" -> FALSE
    [] m.kind = "ETagMatcher" ->
         /\ other.kind = "str"
         /\ (other.s \in Range(m.etags) \/ other.s \in Range(m.weak_etags))

\* ------------------------------------------- ETagMatcher.parse, loop body
\* line 112: value.lower().startswith('w/')
HasWeakPrefixCaseSensitive(value) == StartsWith(value, <<"W", "/">>)
HasWeakPrefix(value) == StartsWith(Lower(value), <<"w", "/">>)

\* lines 112-117: the text the tag is extracted from
AfterWeak(value) == IF HasWeakPrefix(value) THEN Drop(value, 2) ELSE value

\* lines 118-132: the tag and the remaining text
ExtractNoProgress(v) ==
  IF StartsWith(v, <<Q>>) THEN
    LET t == Tail(v)
        i == Find(t, Q)
    IN IF i = 0
       THEN [etag |-> Strip(v, {SP, Q, COMMA}), rest |-> <<>>]
       ELSE [etag |-> SubSeq(t, 1, i - 1), rest |-> Strip(Drop(t, i), {COMMA, SP})]
  ELSE
    LET i == Find(v, COMMA)
    IN IF i # 0
       THEN [etag |-> SubSeq(v, 1, i - 1), rest |-> Strip(Drop(v, i - 1), Whitespace)]
       ELSE [etag |-> v, rest |-> <<>>]

ExtractKeepsRest(v) ==
  IF StartsWith(v, <<Q>>) THEN
    LET t == Tail(v)
        i == Find(t, Q)
    IN IF i = 0
       THEN [etag |-> Strip(v, {SP, Q, COMMA}), rest |-> Strip(Tail(v), {SP, Q})]
       ELSE [etag |-> SubSeq(t, 1, i - 1), rest |-> Strip(Drop(t, i), {COMMA, SP})]
  ELSE
    LET i == Find(v, COMMA)
    IN IF i # 0
       THEN [etag |-> SubSeq(v, 1, i - 1), rest |-> Strip(Drop(v, i), Whitespace)]
       ELSE [etag |-> v, rest |-> <<>>]

Extract(v) ==
  IF StartsWith(v, <<Q>>) THEN
    LET t == Tail(v)
        i == Find(t, Q)
    IN IF i = 0
       THEN [etag |-> Strip(v, {SP, Q, COMMA}), rest |-> <<>>]
       ELSE [etag |-> SubSeq(t, 1, i - 1), rest |-> Strip(Drop(t, i), {COMMA, SP})]
  ELSE
    LET i == Find(v, COMMA)
    IN IF i # 0
       THEN [etag |-> SubSeq(v, 1, i - 1), rest |-> Strip(Drop(v, i), Whitespace)]
       ELSE [etag |-> v, rest |-> <<>>]

\* line 133: etag == '*'
IsWildcardQuoted(etag) == etag = <<Q, "*", Q>>
IsWildcard(etag) == etag = STAR

\* line 135: if etag
KeepsEveryTag(etag) == TRUE
IsTruthyStr(etag) == etag # <<>>

\* ------------------------------------------------------------- the state
VARIABLES
  origin,        \* how the header value handed to parse was built
  value,         \* parse: the text not yet parsed
  results,       \* parse: strong tags
  weak_results,  \* parse: weak tags
  weak,          \* parse: local weak of the last iteration
  etag,          \* parse: local etag of the last iteration
  rest,          \* parse: local rest of the last iteration
  pc,            \* position: "str", "loop", "done", "idle"
  ret,           \* value returned by parse
  environ,       \* etag_property: req.environ[key]
  default,       \* etag_property: the default given at construction
  cond,          \* the object returned by the last IfRange.parse, None if it raised
  out,           \* value returned by the last fget / match
  err,           \* exception raised by the last call
  call           \* the last call and its arguments

vars == <<origin, value, results, weak_results, weak, etag, rest, pc, ret,
          environ, default, cond, out, err, call>>

parseVars == <<origin, value, results, weak_results, weak, etag, rest, pc, ret>>
otherVars == <<environ, default, cond, out, err, call>>

NoCall == [op |-> "none"]
Absent == [kind |-> "absent"]

OtherInit ==
  /\ environ = Absent
  /\ default = NoETag
  /\ cond = NoneV
  /\ out = NoneV
  /\ err = "none"
  /\ call = NoCall

\* ------------------------------------------------------- parse: inputs
Tokens == {<<"W", "/">>, <<"w", "/">>, <<Q>>, <<"a">>, <<"*">>, <<COMMA>>, <<SP>>}

RECURSIVE Flatten(_)
Flatten(ts) == IF ts = <<>> THEN <<>> ELSE Head(ts) \o Flatten(Tail(ts))

SeqsUpTo(S, n) == UNION {[1..k -> S] : k \in 0..n}

RawInputs == {Flatten(ts) : ts \in SeqsUpTo(Tokens, MaxTokens)}

ParseEntry(v) ==
  /\ value = v
  /\ results = <<>>
  /\ weak_results = <<>>
  /\ weak = FALSE
  /\ etag = <<>>
  /\ rest = <<>>
  /\ pc = "loop"
  /\ ret = NoneV

Init ==
  /\ \E v \in RawInputs :
       /\ origin = [kind |-> "raw", text |-> v]
       /\ ParseEntry(v)
  /\ OtherInit

\* ------------------------------------------------------ parse: actions
\* lines 111-140: one iteration of the while loop
ParseIter ==
  /\ pc = "loop"
  /\ value # <<>>
  /\ LET w == HasWeakPrefix(value)
         x == Extract(AfterWeak(value))
     IN /\ weak' = w
        /\ etag' = x.etag
        /\ rest' = x.rest
        /\ IF IsWildcard(x.etag)
           THEN /\ ret' = AnyETag
                /\ pc' = "done"
                /\ UNCHANGED <<value, results, weak_results>>
           ELSE /\ IF IsTruthyStr(x.etag)
                   THEN IF w
                        THEN /\ weak_results' = Append(weak_results, x.etag)
                             /\ results' = results
                        ELSE /\ results' = Append(results, x.etag)
                             /\ weak_results' = weak_results
                   ELSE UNCHANGED <<results, weak_results>>
                /\ value' = x.rest
                /\ UNCHANGED <<ret, pc>>
  /\ UNCHANGED <<origin>>
  /\ UNCHANGED otherVars

\* lines 111, 141: the loop ends, parse returns cls(results, weak_results)
ParseReturn ==
  /\ pc = "loop"
  /\ value = <<>>
  /\ ret' = Matcher(results, weak_results)
  /\ pc' = "done"
  /\ UNCHANGED <<origin, value, results, weak_results, weak, etag, rest>>
  /\ UNCHANGED otherVars

Next == ParseIter \/ ParseReturn

Spec == Init /\ [][Next]_vars

LiveInputs == {Flatten(ts) : ts \in SeqsUpTo(Tokens, MaxLiveTokens)}

LiveInit ==
  /\ \E v \in LiveInputs :
       /\ origin = [kind |-> "raw", text |-> v]
       /\ ParseEntry(v)
  /\ OtherInit

\* the loop is a sequential program: a step that can be taken is taken
LiveSpec == LiveInit /\ [][Next]_vars /\ WF_vars(Next)

\* ------------------------------------- parse of a well-formed tag list
\* An element is a body, quoted or not, with or without the W/ prefix.
ElemBodies ==
  {<<>>, STAR, <<"a">>, <<"b">>, <<"a", COMMA, "b">>, <<"a", SP, "b">>, <<"W", "/", "a">>}

\* an unquoted body is not empty and holds no comma; unquoted text that starts
\* with W/ is a prefix followed by a body
Elems ==
  {e \in [weak : BOOLEAN, quoted : BOOLEAN, body : ElemBodies] :
     \/ e.quoted
     \/ /\ e.body # <<>>
        /\ COMMA \notin Range(e.body)
        /\ (e.weak \/ ~HasWeakPrefix(e.body))}

Separators == {<<COMMA>>, <<COMMA, SP>>}

RenderElem(e) ==
  (IF e.weak THEN <<"W", "/">> ELSE <<>>)
    \o (IF e.quoted THEN <<Q>> \o e.body \o <<Q>> ELSE e.body)

RECURSIVE Join(_, _)
Join(items, sep) ==
  IF items = <<>> THEN <<>>
  ELSE IF Len(items) = 1 THEN Head(items)
  ELSE Head(items) \o sep \o Join(Tail(items), sep)

RenderList(es, sep) == Join([i \in 1..Len(es) |-> RenderElem(es[i])], sep)

ElemLists == SeqsUpTo(Elems, MaxElems) \ {<<>>}

InitElems ==
  /\ \E es \in ElemLists, sep \in Separators :
       /\ origin = [kind |-> "elems", elems |-> es, sep |-> sep]
       /\ ParseEntry(RenderList(es, sep))
  /\ OtherInit

SpecElems == InitElems /\ [][Next]_vars

\* ------------------------------------------------- ETagMatcher.__str__
\* lines 143-147, and the __str__ of the singletons and of str itself
StrNoQuotes(v) ==
  CASE v.kind = "str" -> v.s
    [] v.kind = "AnyETag" -> STAR
    [] v.kind = "NoETag" -> <<>>
    [] v.kind = "ETagMatcher" ->
         Join([i \in 1..Len(v.etags) |-> v.etags[i]]
                \o [i \in 1..Len(v.weak_etags) |-> <<"W", "/">> \o v.weak_etags[i]],
              <<COMMA, SP>>)

Str(v) ==
  CASE v.kind = "str" -> v.s
    [] v.kind = "AnyETag" -> STAR
    [] v.kind = "NoETag" -> <<>>
    [] v.kind = "ETagMatcher" ->
         Join([i \in 1..Len(v.etags) |-> <<Q>> \o v.etags[i] \o <<Q>>]
                \o [i \in 1..Len(v.weak_etags) |->
                       <<"W", "/", Q>> \o v.weak_etags[i] \o <<Q>>],
              <<COMMA, SP>>)

\* tags a matcher may be constructed with: non-empty, no quote character
WellFormedTags ==
  {<<"a">>, <<"b">>, STAR, <<SP>>, <<"a", COMMA, "b">>, <<"W", "/", "a">>, <<COMMA, SP, "a">>}

StrongMatchers == {Matcher(ts, <<>>) : ts \in SeqsUpTo(WellFormedTags, MaxTags)}

InitRoundTrip ==
  /\ \E m \in StrongMatchers :
       /\ origin = [kind |-> "matcher", m |-> m]
       /\ value = <<>>
       /\ results = <<>>
       /\ weak_results = <<>>
       /\ weak = FALSE
       /\ etag = <<>>
       /\ rest = <<>>
       /\ pc = "str"
       /\ ret = NoneV
  /\ OtherInit

\* str(m) is handed to ETagMatcher.parse
StrStep ==
  /\ pc = "str"
  /\ value' = Str(origin.m)
  /\ pc' = "loop"
  /\ UNCHANGED <<origin, results, weak_results, weak, etag, rest, ret>>
  /\ UNCHANGED otherVars

NextRoundTrip == StrStep \/ ParseIter \/ ParseReturn

SpecRoundTrip == InitRoundTrip /\ [][NextRoundTrip]_vars

\* ------------------------------------------------ parse as a function
\* ETagMatcher.parse(value), lines 109-141, for the callers of parse
RECURSIVE ParseFrom(_, _, _)
ParseFrom(v, strong, weaks) ==
  IF v = <<>> THEN Matcher(strong, weaks)
  ELSE LET w == HasWeakPrefix(v)
           x == Extract(AfterWeak(v))
       IN IF IsWildcard(x.etag) THEN AnyETag
          ELSE IF ~IsTruthyStr(x.etag) THEN ParseFrom(x.rest, strong, weaks)
          ELSE IF w THEN ParseFrom(x.rest, strong, Append(weaks, x.etag))
          ELSE ParseFrom(x.rest, Append(strong, x.etag), weaks)

Parse(v) == ParseFrom(v, <<>>, <<>>)

ParseIdle ==
  /\ origin = [kind |-> "none"]
  /\ value = <<>>
  /\ results = <<>>
  /\ weak_results = <<>>
  /\ weak = FALSE
  /\ etag = <<>>
  /\ rest = <<>>
  /\ pc = "idle"
  /\ ret = NoneV

\* ------------------------------------------------------- etag_property
HeaderTexts == {Flatten(ts) : ts \in SeqsUpTo(Tokens, MaxHeaderTokens)}

TagNames == {<<"a">>, <<"b">>}

SomeMatchers ==
  {Matcher(s, w) : s \in SeqsUpTo(TagNames, 1), w \in SeqsUpTo(TagNames, 1)}

\* the values a caller assigns to the property
PropertyValues ==
  {NoneV, AnyETag, NoETag} \cup {StrV(t) : t \in HeaderTexts} \cup SomeMatchers

\* lines 17-23
FGetResult(env, dflt) ==
  IF env.kind \in {"absent", "None"} THEN dflt
  ELSE IF env.s = <<>> THEN dflt
  ELSE IF env.s = STAR THEN AnyETag
  ELSE Parse(env.s)

\* lines 25-28
FSetEnvDeletes(val) == IF val = NoneV THEN Absent ELSE StrV(Str(val))
FSetEnv(val) == IF val = NoneV THEN NoneV ELSE StrV(Str(val))

InitProperty ==
  /\ ParseIdle
  /\ environ \in {Absent} \cup {StrV(t) : t \in HeaderTexts}
  /\ default \in {NoETag, AnyETag}
  /\ cond = NoneV
  /\ out = NoneV
  /\ err = "none"
  /\ call = NoCall

\* lines 16-23
FGet ==
  /\ call' = [op |-> "fget"]
  /\ out' = FGetResult(environ, default)
  /\ err' = "none"
  /\ UNCHANGED <<environ, default, cond>>
  /\ UNCHANGED parseVars

\* lines 24-28
FSet ==
  \E val \in PropertyValues :
    /\ call' = [op |-> "fset", val |-> val]
    /\ environ' = FSetEnv(val)
    /\ out' = NoneV
    /\ err' = "none"
    /\ UNCHANGED <<default, cond>>
    /\ UNCHANGED parseVars

\* lines 29-30: del req.environ[key] raises KeyError when the key is absent
FDel ==
  /\ call' = [op |-> "fdel"]
  /\ out' = NoneV
  /\ IF environ = Absent
     THEN err' = "KeyError" /\ environ' = environ
     ELSE err' = "none" /\ environ' = Absent
  /\ UNCHANGED <<default, cond>>
  /\ UNCHANGED parseVars

NextProperty == FGet \/ FSet \/ FDel

SpecProperty == InitProperty /\ [][NextProperty]_vars

\* ----------------------------------------------- IfRange and IfRangeDate
GMT == <<SP, "G", "M", "T">>

DateDigits == {"1", "2"}

DigitValue(c) == CASE c = "1" -> 1 [] c = "2" -> 2

DateV(n) == [kind |-> "datetime", ts |-> n]
IfRangeV(e) == [kind |-> "IfRange", etag |-> e]
IfRangeDateV(d) == [kind |-> "IfRangeDate", date |-> d]

\* webob.datetime_utils.parse_date: a date text is a digit followed by ' GMT'
ParseDate(s) ==
  LET t == Strip(s, Whitespace)
  IN IF Len(t) = 5 /\ t[1] \in DateDigits /\ SubSeq(t, 2, 5) = GMT
     THEN [ok |-> TRUE, date |-> DateV(DigitValue(t[1]))]
     ELSE [ok |-> FALSE]

DateText(n) == <<CHOOSE c \in DateDigits : DigitValue(c) = n>> \o GMT

RangeTokens == {<<"1">> \o GMT, <<"2">> \o GMT, GMT, <<SP>>, <<Q, "a", Q>>, <<"*">>}

RangeInputs ==
  {NoneV} \cup {StrV(Flatten(ts)) : ts \in SeqsUpTo(RangeTokens, MaxRangeTokens)}

MatchTags == {NoneV, StrV(<<"a">>), StrV(<<"b">>)}

LastModifieds ==
  {NoneV} \cup {DateV(DigitValue(c)) : c \in DateDigits}
          \cup {StrV(DateText(DigitValue(c))) : c \in DateDigits}

\* lines 159-165
IfRangeParseTrimmed(v) ==
  IF v = NoneV \/ v.s = <<>> THEN [err |-> "none", val |-> IfRangeV(AnyETag)]
  ELSE IF EndsWith(Strip(v.s, Whitespace), GMT)
       THEN LET d == ParseDate(v.s)
            IN IF d.ok THEN [err |-> "none", val |-> IfRangeDateV(d.date)]
               ELSE [err |-> "ParseError"]
       ELSE [err |-> "none", val |-> IfRangeV(Parse(v.s))]

IfRangeParseResult(v) ==
  IF v = NoneV \/ v.s = <<>> THEN [err |-> "none", val |-> IfRangeV(AnyETag)]
  ELSE IF EndsWith(v.s, GMT)
       THEN LET d == ParseDate(v.s)
            IN IF d.ok THEN [err |-> "none", val |-> IfRangeDateV(d.date)]
               ELSE [err |-> "ParseError"]
       ELSE [err |-> "none", val |-> IfRangeV(Parse(v.s))]

\* lines 200-202; a datetime is always truthy
IfRangeDateMatchStrict(date, tag, last_modified) ==
  LET p == IF last_modified.kind = "str" THEN ParseDate(last_modified.s)
           ELSE [ok |-> TRUE, date |-> last_modified]
  IN IF ~p.ok THEN [err |-> "ParseError"]
     ELSE IF p.date = NoneV THEN [err |-> "none", val |-> NoneV]
     ELSE [err |-> "none", val |-> BoolV(p.date.ts < date.ts)]

IfRangeDateMatchResult(date, tag, last_modified) ==
  LET p == IF last_modified.kind = "str" THEN ParseDate(last_modified.s)
           ELSE [ok |-> TRUE, date |-> last_modified]
  IN IF ~p.ok THEN [err |-> "ParseError"]
     ELSE IF p.date = NoneV THEN [err |-> "none", val |-> NoneV]
     ELSE [err |-> "none", val |-> BoolV(p.date.ts <= date.ts)]

InitIfRange ==
  /\ ParseIdle
  /\ OtherInit

\* lines 154-165
IfRangeParse ==
  \E v \in RangeInputs :
    LET r == IfRangeParseResult(v)
    IN /\ call' = [op |-> "IfRange.parse", value |-> v]
       /\ err' = r.err
       /\ cond' = IF r.err = "none" THEN r.val ELSE NoneV
       /\ out' = NoneV
       /\ UNCHANGED <<environ, default>>
       /\ UNCHANGED parseVars

\* lines 167-172
IfRangeMatch ==
  /\ cond.kind = "IfRange"
  /\ \E tag \in MatchTags, lm \in LastModifieds :
       /\ call' = [op |-> "IfRange.match", etag |-> tag, last_modified |-> lm]
       /\ out' = BoolV(Contains(cond.etag, tag))
       /\ err' = "none"
  /\ UNCHANGED <<environ, default, cond>>
  /\ UNCHANGED parseVars

\* lines 198-202
IfRangeDateMatch ==
  /\ cond.kind = "IfRangeDate"
  /\ \E tag \in MatchTags, lm \in LastModifieds :
       LET r == IfRangeDateMatchResult(cond.date, tag, lm)
       IN /\ call' = [op |-> "IfRangeDate.match", etag |-> tag, last_modified |-> lm]
          /\ err' = r.err
          /\ out' = IF r.err = "none" THEN r.val ELSE NoneV
  /\ UNCHANGED <<environ, default, cond>>
  /\ UNCHANGED parseVars

NextIfRange == IfRangeParse \/ IfRangeMatch \/ IfRangeDateMatch

SpecIfRange == InitIfRange /\ [][NextIfRange]_vars

\* ===================================================== checked properties
IsIter == pc = "loop" /\ value # <<>>

Candidates == ElemBodies \cup WellFormedTags \cup {<<"c">>}

ElemBodySet(es) == {es[i].body : i \in 1..Len(es)}

PlainBodies(es) == \A i \in 1..Len(es) : es[i].body \notin {<<>>, STAR}

C2_FirstStarWins ==
  etag = STAR =>
    /\ pc = "done"
    /\ ret = AnyETag
    /\ \A t \in Candidates : Contains(ret, StrV(t))

C2_Witness ==
  /\ pc = "done"
  /\ etag = STAR
  /\ ret = AnyETag
  /\ origin.kind = "raw"
  /\ Head(origin.text) # "*"
  /\ results # <<>>

\* C3 (as stated): for a matcher with an empty weak list and well-formed strong
\* tags, parse(str(m)) is a matcher with the strong tags of m and no weak tag.
C3_RoundTrip ==
  (pc = "done" /\ origin.kind = "matcher") => ret = Matcher(origin.m.etags, <<>>)

\* C3 (amended): the round trip holds when, in addition, no strong tag is '*'.
C3_RoundTripNoStar ==
  (pc = "done" /\ origin.kind = "matcher" /\ STAR \notin Range(origin.m.etags)) =>
    ret = Matcher(origin.m.etags, <<>>)

C3_Witness ==
  /\ pc = "done"
  /\ origin.kind = "matcher"
  /\ Len(origin.m.etags) = 2
  /\ <<"a", COMMA, "b">> \in Range(origin.m.etags)
  /\ ret = Matcher(origin.m.etags, <<>>)

\* C4: every iteration of the loop leaves a remaining text strictly shorter
\* than the one it started with and raises nothing, and parse eventually
\* returns AnyETag or an ETagMatcher.
C4_Terminates ==
  /\ [][IsIter => /\ Len(rest') < Len(value)
                  /\ (pc' = "loop" => value' = rest')
                  /\ err' = "none"]_vars
  /\ <>(pc = "done" /\ ret.kind \in {"AnyETag", "ETagMatcher"} /\ err = "none")

C4_Witness ==
  /\ pc = "done"
  /\ ret.kind = "ETagMatcher"
  /\ Len(origin.text) >= 3
  /\ Len(ret.etags) + Len(ret.weak_etags) >= 2

\* the text the tag is extracted from starts with a quote and has no other
Unterminated(v) == v # <<>> /\ Head(v) = Q /\ Q \notin Range(Tail(v))

TrimmedTail(v) == Strip(v, {SP, Q, COMMA})

\* C5 (as stated): on an unterminated quote the whole remaining text, trimmed
\* of spaces, quotes and commas, becomes one final tag, added to the list if
\* non-empty; the remainder is empty and no further tag is parsed;
\* parse('"aaa') is a matcher holding 'aaa' alone.
C5_UnterminatedQuote ==
  [][(IsIter /\ Unterminated(AfterWeak(value))) =>
       /\ err' = "none"
       /\ etag' = TrimmedTail(AfterWeak(value))
       /\ rest' = <<>>
       /\ (etag' # <<>> =>
             \/ results' = Append(results, etag') /\ weak_results' = weak_results
             \/ weak_results' = Append(weak_results, etag') /\ results' = results)
       /\ (etag' = <<>> => results' = results /\ weak_results' = weak_results)
       /\ (pc' = "done" \/ value' = <<>>)]_vars

\* C5 (amended): as stated, except that a trimmed text that is exactly '*' is
\* not added to a list: parse returns AnyETag.
C5_UnterminatedQuoteOrStar ==
  /\ [][(IsIter /\ Unterminated(AfterWeak(value))) =>
          /\ err' = "none"
          /\ etag' = TrimmedTail(AfterWeak(value))
          /\ rest' = <<>>
          /\ (etag' \notin {<<>>, STAR} =>
                /\ pc' = "loop" /\ value' = <<>>
                /\ \/ results' = Append(results, etag') /\ weak_results' = weak_results
                   \/ weak_results' = Append(weak_results, etag') /\ results' = results)
          /\ (etag' = <<>> =>
                pc' = "loop" /\ value' = <<>>
                  /\ results' = results /\ weak_results' = weak_results)
          /\ (etag' = STAR => pc' = "done" /\ ret' = AnyETag)]_vars
  /\ []((pc = "done" /\ origin.kind = "raw" /\ origin.text = <<Q, "a", "a", "a">>) =>
          ret = Matcher(<<<<"a", "a", "a">>>>, <<>>))

C5_Witness ==
  /\ pc = "done"
  /\ origin.kind = "raw"
  /\ origin.text = <<Q, "a", "a", "a">>
  /\ Contains(ret, StrV(<<"a", "a", "a">>))

\* a W/ marker, in either letter case, at position i of s
MarkerAt(s, i) == Len(s) >= i + 1 /\ s[i] \in {"W", "w"} /\ s[i + 1] = "/"

RECURSIVE StripAllMarkers(_)
StripAllMarkers(s) == IF MarkerAt(s, 1) THEN StripAllMarkers(Drop(s, 2)) ELSE s

\* C8 (as stated): an iteration consumes every leading W/ marker, in either
\* letter case, marks the tag weak if there was one, and extracts the tag from
\* what follows the last marker.
C8_ConsumesEveryMarker ==
  [][IsIter =>
       /\ weak' = MarkerAt(value, 1)
       /\ etag' = Extract(StripAllMarkers(value)).etag
       /\ rest' = Extract(StripAllMarkers(value)).rest]_vars

\* C8 (amended): an iteration consumes at most one leading W/ marker, in
\* either letter case, and marks the tag that follows as weak; a second marker
\* stays in the text and starts the body of the tag; the mark is decided by
\* the text of this iteration alone, and the tag goes to the weak list if and
\* only if it is marked.
C8_ConsumesOneMarker ==
  [][IsIter =>
       /\ weak' = MarkerAt(value, 1)
       /\ (MarkerAt(value, 1) /\ MarkerAt(value, 3) =>
             /\ Len(etag') >= 2
             /\ SubSeq(etag', 1, 2) = SubSeq(value, 3, 4))
       /\ (~MarkerAt(value, 1) /\ Head(value) \notin {Q, COMMA} =>
             etag' # <<>> /\ Head(etag') = Head(value))
       /\ ((pc' = "loop" /\ etag' # <<>>) =>
             IF MarkerAt(value, 1)
             THEN weak_results' = Append(weak_results, etag') /\ results' = results
             ELSE results' = Append(results, etag') /\ weak_results' = weak_results)]_vars
  /\ []((pc = "done" /\ origin.kind = "raw"
           /\ origin.text \in {<<"W", "/", "W", "/", Q, "a", Q>>, <<"w", "/", "W", "/", Q, "a", Q>>}) =>
          ret = Matcher(<<>>, <<(<<"W", "/", Q, "a", Q>>)>>))

C8_Witness ==
  /\ pc = "done"
  /\ origin.kind = "raw"
  /\ origin.text = <<"w", "/", "W", "/", Q, "a", Q>>
  /\ ret = Matcher(<<>>, <<(<<"W", "/", Q, "a", Q>>)>>)

\* C6 (as stated): IfRange.parse gives IfRange(AnyETag) for an empty or absent
\* value, hands a value whose trimmed text ends with ' GMT' to the date parser
\* and gives an IfRangeDate with the parsed date, and gives
\* IfRange(ETagMatcher.parse(value)) otherwise; IfRange(AnyETag) matches every
\* tag and every last_modified.
C6_DispatchTrimmed ==
  [][/\ call'.op = "IfRange.parse" =>
          LET v == call'.value
          IN IF v = NoneV \/ v.s = <<>>
             THEN cond' = IfRangeV(AnyETag) /\ err' = "none"
             ELSE IF EndsWith(Strip(v.s, Whitespace), GMT)
                  THEN IF ParseDate(v.s).ok
                       THEN cond' = IfRangeDateV(ParseDate(v.s).date) /\ err' = "none"
                       ELSE err' = "ParseError"
                  ELSE cond' = IfRangeV(Parse(v.s)) /\ err' = "none"
     /\ (call'.op = "IfRange.match" /\ cond = IfRangeV(AnyETag)) =>
          out' = BoolV(TRUE) /\ err' = "none"]_vars

\* C6 (amended): the date case is decided on the value as given, not trimmed:
\* a value that ends with ' GMT' is handed to the date parser, and a value
\* with anything after ' GMT', a space included, is parsed as a tag list.
C6_DispatchUntrimmed ==
  [][/\ call'.op = "IfRange.parse" =>
          LET v == call'.value
          IN IF v = NoneV \/ v.s = <<>>
             THEN cond' = IfRangeV(AnyETag) /\ err' = "none"
             ELSE IF EndsWith(v.s, GMT)
                  THEN IF ParseDate(v.s).ok
                       THEN cond' = IfRangeDateV(ParseDate(v.s).date) /\ err' = "none"
                       ELSE err' = "ParseError"
                  ELSE cond' = IfRangeV(Parse(v.s)) /\ err' = "none"
     /\ (call'.op = "IfRange.match" /\ cond = IfRangeV(AnyETag)) =>
          out' = BoolV(TRUE) /\ err' = "none"]_vars

C6_Witness ==
  /\ call.op = "IfRange.parse"
  /\ call.value = StrV(<<"1">> \o GMT \o <<SP>>)
  /\ err = "none"
  /\ cond = IfRangeV(Matcher(<<(<<"1">> \o GMT \o <<SP>>)>>, <<>>))

C9_ClearLeavesAbsent ==
  [][/\ (call'.op = "fdel" \/ (call'.op = "fset" /\ call'.val = NoneV)) =>
          environ' = Absent /\ err' = "none"
     /\ (call'.op = "fset" /\ call'.val # NoneV) =>
          environ' = StrV(Str(call'.val)) /\ err' = "none"
     /\ call'.op = "fget" =>
          /\ err' = "none"
          /\ environ' = environ
          /\ out' = IF environ.kind # "str" THEN default
                    ELSE IF environ.s = <<>> THEN default
                    ELSE IF environ.s = STAR THEN AnyETag
                    ELSE Parse(environ.s)]_vars

\* C9 (amended): the setter with None stores None under the key, which stays
\* present; the deleter removes the key and raises KeyError when the key is
\* already absent, so it may follow the setter with None but not another
\* deleter; the rest is as stated.
C9_ClearThenDefault ==
  [][/\ (call'.op = "fset" /\ call'.val = NoneV) =>
          environ' = NoneV /\ err' = "none"
     /\ (call'.op = "fdel" /\ environ # Absent) =>
          environ' = Absent /\ err' = "none"
     /\ (call'.op = "fdel" /\ environ = Absent) =>
          environ' = Absent /\ err' = "KeyError"
     /\ (call'.op = "fset" /\ call'.val # NoneV) =>
          environ' = StrV(Str(call'.val)) /\ err' = "none"
     /\ call'.op = "fget" =>
          /\ err' = "none"
          /\ environ' = environ
          /\ out' = IF environ.kind # "str" THEN default
                    ELSE IF environ.s = <<>> THEN default
                    ELSE IF environ.s = STAR THEN AnyETag
                    ELSE Parse(environ.s)]_vars

C9_Witness ==
  /\ call.op = "fget"
  /\ environ = NoneV
  /\ default = AnyETag
  /\ out = AnyETag

\* C10: in every state of the loop, and in the matcher returned, neither list
\* holds the empty string or '*', so the result of parse contains neither
\* unless it is AnyETag.
C10_NoEmptyNoStar ==
  /\ <<>> \notin Range(results) \cup Range(weak_results)
  /\ STAR \notin Range(results) \cup Range(weak_results)
  /\ (pc = "done" /\ ret.kind = "ETagMatcher") =>
       /\ ret = Matcher(results, weak_results)
       /\ ~Contains(ret, StrV(<<>>))
       /\ ~Contains(ret, StrV(STAR))
  /\ (pc = "done" /\ ret.kind # "ETagMatcher") => ret = AnyETag

C10_Witness ==
  /\ pc = "done"
  /\ ret.kind = "ETagMatcher"
  /\ origin.kind = "raw"
  /\ origin.text # <<>>
  /\ etag = <<>>
  /\ results # <<>>

====
